---- MODULE Spec2Model ----
(***************************************************************************)
(* Model of src/progetto.py: the ingestion pipeline prepara_dati (yearly   *)
(* measurement files -> cleaning -> station registry -> inner join) and    *)
(* the three aggregations of avvia_app (annual mean with trend, station    *)
(* ranking, last-year series of one station).                              *)
(*                                                                         *)
(* Encodings.  An optional scalar (a pandas cell that may be NaN / NaT) is *)
(* a sequence of length 0 or 1: <<>> is missing, <<n>> is the value n.     *)
(* A raw "valore" is the text of the JSON field, a sequence of characters. *)
(* A raw "data" is <<year, month>> as written in the file, or <<>> for a   *)
(* JSON null; a month outside 1..12 is a malformed date.  A parsed         *)
(* timestamp is the month count year*12 + (month-1).  A raw station id is  *)
(* given in halves (2 is 1.0, 3 is 1.5, 8 is 4.0) so that the integer      *)
(* cast, which truncates, is not the identity.  A mean is the exact        *)
(* rational [s |-> sum, n |-> count]; floating-point rounding is not       *)
(* modelled.                                                               *)
(***************************************************************************)
EXTENDS Integers, Sequences, FiniteSets

\* ------------------------------------------------------------------ bounds

\* Largest number of measurement rows over all yearly files of one run.
MaxRighe == 2

\* Largest number of features in the station feature collection.
MaxFeatures == 2

\* ------------------------------------------------- program constants, inputs

\* The list of yearly sources of prepara_dati, cut to its first two names.
file_json_annuali == <<"aria15.json", "aria16.json">>

Digits == {"0", "1", "2", "3", "4", "5", "6", "7", "8", "9"}

DigitVal(c) ==
    CASE c = "0" -> 0 [] c = "1" -> 1 [] c = "2" -> 2 [] c = "3" -> 3
      [] c = "4" -> 4 [] c = "5" -> 5 [] c = "6" -> 6 [] c = "7" -> 7
      [] c = "8" -> 8 [] c = "9" -> 9

\* Field values of the raw measurement rows a yearly file may hold.
RawInquinanti == {"PM10"}
RawStazioneId == {2, 8}
RawData       == {<<2020, 3>>, <<2020, 13>>, <<>>}
RawValore     == {<<"1", "0">>, <<"n", "a">>}

RigheGrezze ==
    [inquinante : RawInquinanti, stazione_id : RawStazioneId,
     data : RawData, valore : RawValore]

\* Features of the station feature collection (properties.id_amat, .nome).
Features ==
    { [id_amat |-> 2, nome |-> "Verziere"],
      [id_amat |-> 3, nome |-> "Senato"],
      [id_amat |-> 8, nome |-> "Liguria"] }

SeqsUpTo(S, n) == UNION { [1..k -> S] : k \in 0..n }

\* A yearly file: absent from disk, or present with its rows.
Assente == [present |-> FALSE, righe |-> <<>>]
Presente(rs) == [present |-> TRUE, righe |-> rs]

\* The station source: missing, not valid JSON, or a feature collection.
GeoSources ==
    { [stato |-> "absent", features |-> <<>>],
      [stato |-> "invalid", features |-> <<>>] }
    \cup { [stato |-> "ok", features |-> fs] : fs \in SeqsUpTo(Features, MaxFeatures) }

\* The contents of the two yearly files, at most MaxRighe rows in all.
FileSystems ==
    { [n \in {file_json_annuali[1], file_json_annuali[2]} |->
          IF n = file_json_annuali[1] THEN a ELSE b] :
        <<a, b>> \in
          { <<x, y>> \in ({Assente} \cup { Presente(rs) : rs \in SeqsUpTo(RigheGrezze, MaxRighe) })
                         \X ({Assente} \cup { Presente(rs) : rs \in SeqsUpTo(RigheGrezze, MaxRighe) }) :
              Len(x.righe) + Len(y.righe) <= MaxRighe } }

\* ------------------------------------------------------------- conversions

RECURSIVE ParseDigits(_)
ParseDigits(txt) ==
    IF txt = <<>> THEN 0
    ELSE 10 * ParseDigits(SubSeq(txt, 1, Len(txt) - 1)) + DigitVal(txt[Len(txt)])

\* pd.to_numeric(errors="coerce") on one cell: the number, or NaN.
ToNumeric(txt) ==
    IF txt # <<>> /\ \A k \in 1..Len(txt) : txt[k] \in Digits
    THEN <<ParseDigits(txt)>>
    ELSE <<>>

\* What pd.to_datetime (errors="raise") cannot parse.
Malformed(d) == d # <<>> /\ d[2] \notin 1..12

\* pd.to_datetime on one parseable cell: the timestamp, or NaT for a null.
ToDatetime(d) == IF d = <<>> THEN <<>> ELSE <<d[1] * 12 + (d[2] - 1)>>

\* .dt.year on one cell: NaN for NaT.
Year(t) == IF t = <<>> THEN <<>> ELSE <<t[1] \div 12>>

\* int(x) / astype(int): truncation of a non-negative number given in halves.
ToInt(h) == h \div 2

\* ------------------------------------------------------------ frame helpers

RECURSIVE Concat(_)
\* pd.concat(frames, ignore_index=True): the rows of all frames, in order.
Concat(frames) ==
    IF frames = <<>> THEN <<>>
    ELSE Head(frames) \o Concat(Tail(frames))

\* Lines 69-71: the coerced columns valore, data and the derived anno.
Coerce(r) ==
    [inquinante |-> r.inquinante, stazione_id |-> r.stazione_id,
     valore |-> ToNumeric(r.valore), data |-> ToDatetime(r.data),
     anno |-> Year(ToDatetime(r.data))]

HasValore(r) == r.valore # <<>>

\* Variant of DropNaValore: the dropna of line 72 left out.
DropNaValore_Keep(rows) == rows

RECURSIVE DropNaValore(_)
\* Line 72: df.dropna(subset=["valore"]), the rows with a value, in order.
DropNaValore(rows) ==
    IF rows = <<>> THEN <<>>
    ELSE (IF HasValore(Head(rows)) THEN <<Head(rows)>> ELSE <<>>)
         \o DropNaValore(Tail(rows))

\* Lines 69-72 on a frame every date of which parses.
Pulisci(rows) == DropNaValore([k \in 1..Len(rows) |-> Coerce(rows[k])])

\* Lines 78-84: the station table, ids forced to integers.
Stazioni(features) ==
    [k \in 1..Len(features) |->
        [stazione_id |-> ToInt(features[k].id_amat),
         nome_stazione |-> features[k].nome]]

\* One left row joined with every right row of the same key, in right order.
RECURSIVE Matches(_, _)
Matches(r, right) ==
    IF right = <<>> THEN <<>>
    ELSE (IF Head(right).stazione_id = r.stazione_id
          THEN << [inquinante |-> r.inquinante, stazione_id |-> r.stazione_id,
                   valore |-> r.valore, data |-> r.data, anno |-> r.anno,
                   nome_stazione |-> Head(right).nome_stazione] >>
          ELSE <<>>)
         \o Matches(r, Tail(right))

RECURSIVE Merge_Left(_, _)
\* Variant of Merge: a left join (how="left"), which keeps a row of an
\* unknown station, without a name.
Merge_Left(left, right) ==
    IF left = <<>> THEN <<>>
    ELSE (IF Matches(Head(left), right) # <<>>
          THEN Matches(Head(left), right)
          ELSE << [inquinante |-> Head(left).inquinante,
                   stazione_id |-> Head(left).stazione_id,
                   valore |-> Head(left).valore, data |-> Head(left).data,
                   anno |-> Head(left).anno, nome_stazione |-> ""] >>)
         \o Merge_Left(Tail(left), right)

RECURSIVE Merge(_, _)
\* Line 88: pd.merge(left, right, on="stazione_id"), an inner join.
Merge(left, right) ==
    IF left = <<>> THEN <<>>
    ELSE Matches(Head(left), right) \o Merge(Tail(left), right)

\* Line 87: df["stazione_id"].astype(int).
AsTypeInt(rows) ==
    [k \in 1..Len(rows) |->
        [inquinante |-> rows[k].inquinante, stazione_id |-> ToInt(rows[k].stazione_id),
         valore |-> rows[k].valore, data |-> rows[k].data, anno |-> rows[k].anno]]

\* ------------------------------------------------------------------- state

VARIABLES
    fs,           \* the yearly files on disk
    geo,          \* the station source dati_milano.json on disk
    pc,           \* position in prepara_dati
    i,            \* index of the next name of file_json_annuali
    lista_dati,   \* the frames loaded so far
    warnings,     \* the st.warning messages, by file name
    df,           \* the measurement frame
    df_stazioni,  \* the station table
    df_completo,  \* the table prepara_dati returns
    err,          \* the exception that left prepara_dati, or "none"
    apc,            \* position in avvia_app after prepara_dati has returned
    inquinante,     \* the pollutant chosen in the sidebar (optional)
    media_annuale,  \* annual mean: <<[anno, s, n], ...>>, mean = s / n
    trend,          \* "diminuito", "aumentato", or "none" when nothing is written
    media_stazioni, \* station ranking: <<[nome_stazione, s, n], ...>>
    stazione,       \* the station chosen for the detail (optional)
    anno_corrente,  \* df["anno"].max() (optional)
    df_focus,       \* the rows of the detail plot
    messaggio       \* "info" (plot shown), "warning" (no data), or "none"

prepvars == <<fs, geo, pc, i, lista_dati, warnings, df, df_stazioni, df_completo, err>>

appvars == <<apc, inquinante, media_annuale, trend, media_stazioni, stazione,
             anno_corrente, df_focus, messaggio>>

vars == <<prepvars, appvars>>

AppInit ==
    /\ apc = "sidebar"
    /\ inquinante = <<>>
    /\ media_annuale = <<>>
    /\ trend = "none"
    /\ media_stazioni = <<>>
    /\ stazione = <<>>
    /\ anno_corrente = <<>>
    /\ df_focus = <<>>
    /\ messaggio = "none"

Init ==
    /\ fs \in FileSystems
    /\ geo \in GeoSources
    /\ pc = "load"
    /\ i = 1
    /\ lista_dati = <<>>
    /\ warnings = <<>>
    /\ df = <<>>
    /\ df_stazioni = <<>>
    /\ df_completo = <<>>
    /\ err = "none"
    /\ AppInit

Raise(e) ==
    /\ pc' = "error"
    /\ err' = e

\* Lines 58-62: the next yearly file exists; its frame is appended.
CaricaFile ==
    /\ pc = "load"
    /\ i <= Len(file_json_annuali)
    /\ fs[file_json_annuali[i]].present
    /\ lista_dati' = Append(lista_dati, fs[file_json_annuali[i]].righe)
    /\ i' = i + 1
    /\ UNCHANGED <<fs, geo, pc, warnings, df, df_stazioni, df_completo, err, appvars>>

\* Variant of FileNonTrovato: no except clause, the error of open() leaves
\* prepara_dati.
FileNonTrovato_Propagate ==
    /\ pc = "load"
    /\ i <= Len(file_json_annuali)
    /\ ~fs[file_json_annuali[i]].present
    /\ Raise("FileNotFoundError: yearly source")
    /\ UNCHANGED <<fs, geo, i, lista_dati, warnings, df, df_stazioni, df_completo, appvars>>

\* Lines 63-64: the next yearly file is missing; a warning names it.
FileNonTrovato ==
    /\ pc = "load"
    /\ i <= Len(file_json_annuali)
    /\ ~fs[file_json_annuali[i]].present
    /\ warnings' = Append(warnings, file_json_annuali[i])
    /\ i' = i + 1
    /\ UNCHANGED <<fs, geo, pc, lista_dati, df, df_stazioni, df_completo, err, appvars>>

\* Line 66: pd.concat raises ValueError on an empty list of frames.
ConcatOk ==
    /\ pc = "load"
    /\ i > Len(file_json_annuali)
    /\ lista_dati # <<>>
    /\ df' = Concat(lista_dati)
    /\ pc' = "pulizia"
    /\ UNCHANGED <<fs, geo, i, lista_dati, warnings, df_stazioni, df_completo, err, appvars>>

ConcatVuoto ==
    /\ pc = "load"
    /\ i > Len(file_json_annuali)
    /\ lista_dati = <<>>
    /\ Raise("ValueError: No objects to concatenate")
    /\ UNCHANGED <<fs, geo, i, lista_dati, warnings, df, df_stazioni, df_completo, appvars>>

\* Lines 69-72.  A frame built from empty files only has no column "valore".
PuliziaOk ==
    /\ pc = "pulizia"
    /\ df # <<>>
    /\ \A k \in 1..Len(df) : ~Malformed(df[k].data)
    /\ df' = Pulisci(df)
    /\ pc' = "stazioni"
    /\ UNCHANGED <<fs, geo, i, lista_dati, warnings, df_stazioni, df_completo, err, appvars>>

PuliziaSenzaColonne ==
    /\ pc = "pulizia"
    /\ df = <<>>
    /\ Raise("KeyError: valore")
    /\ UNCHANGED <<fs, geo, i, lista_dati, warnings, df, df_stazioni, df_completo, appvars>>

\* Line 70: pd.to_datetime raises on a date it cannot parse.
PuliziaDataMalformata ==
    /\ pc = "pulizia"
    /\ \E k \in 1..Len(df) : Malformed(df[k].data)
    /\ Raise("ValueError: to_datetime")
    /\ UNCHANGED <<fs, geo, i, lista_dati, warnings, df, df_stazioni, df_completo, appvars>>

\* Lines 75-84.
CaricaStazioni ==
    /\ pc = "stazioni"
    /\ geo.stato = "ok"
    /\ df_stazioni' = Stazioni(geo.features)
    /\ pc' = "merge"
    /\ UNCHANGED <<fs, geo, i, lista_dati, warnings, df, df_completo, err, appvars>>

\* Variant of StazioniAssenti: the missing station source handled like a
\* missing yearly source, with a warning and an empty station table.
StazioniAssenti_Warn ==
    /\ pc = "stazioni"
    /\ geo.stato = "absent"
    /\ warnings' = Append(warnings, "dati_milano.json")
    /\ df_stazioni' = <<>>
    /\ pc' = "merge"
    /\ UNCHANGED <<fs, geo, i, lista_dati, df, df_completo, err, appvars>>

StazioniAssenti ==
    /\ pc = "stazioni"
    /\ geo.stato = "absent"
    /\ Raise("FileNotFoundError: dati_milano.json")
    /\ UNCHANGED <<fs, geo, i, lista_dati, warnings, df, df_stazioni, df_completo, appvars>>

StazioniInvalide ==
    /\ pc = "stazioni"
    /\ geo.stato = "invalid"
    /\ Raise("JSONDecodeError: dati_milano.json")
    /\ UNCHANGED <<fs, geo, i, lista_dati, warnings, df, df_stazioni, df_completo, appvars>>

\* Lines 87-90.  A station table built from no feature has no column
\* "stazione_id", and the merge raises KeyError.
Unione ==
    /\ pc = "merge"
    /\ df_stazioni # <<>>
    /\ df' = AsTypeInt(df)
    /\ df_completo' = Merge(AsTypeInt(df), df_stazioni)
    /\ pc' = "done"
    /\ UNCHANGED <<fs, geo, i, lista_dati, warnings, df_stazioni, err, appvars>>

UnioneSenzaStazioni ==
    /\ pc = "merge"
    /\ df_stazioni = <<>>
    /\ Raise("KeyError: stazione_id")
    /\ UNCHANGED <<fs, geo, i, lista_dati, warnings, df, df_stazioni, df_completo, appvars>>

\* --------------------------------------------------- avvia_app: aggregations
\* The values avvia_app computes; the drawing of the charts and tables
\* (st.pyplot, st.table) is not part of the model.

\* head(5) of the station ranking.
TopN == 5

Min(a, b) == IF a <= b THEN a ELSE b

\* df["inquinante"] == inquinante, as row indices; None equals no value.
IdxInquinante(t, inq) == { k \in 1..Len(t) : <<t[k].inquinante>> = inq }

RECURSIVE SumValore(_, _)
\* Sum of the column valore over the rows I of t.
SumValore(t, I) ==
    IF I = {} THEN 0
    ELSE LET k == CHOOSE x \in I : TRUE
         IN  t[k].valore[1] + SumValore(t, I \ {k})

RECURSIVE Ascending(_)
\* The elements of a finite set of integers, smallest first.
Ascending(S) ==
    IF S = {} THEN <<>>
    ELSE LET m == CHOOSE x \in S : \A y \in S : x <= y
         IN  <<m>> \o Ascending(S \ {m})

\* .groupby("anno")["valore"].mean() over the rows I: one entry per year,
\* keys sorted ascending, rows whose year is NaN left out of every group.
GroupMeanAnno(t, I) ==
    LET anni == Ascending({ t[k].anno[1] : k \in { j \in I : t[j].anno # <<>> } })
    IN  [e \in 1..Len(anni) |->
            LET G == { k \in I : t[k].anno = <<anni[e]>> }
            IN  [anno |-> anni[e], s |-> SumValore(t, G), n |-> Cardinality(G)]]

\* Variant of MediaAnnuale: the filter on the pollutant left out.
MediaAnnuale_NoFilter(t, inq) == GroupMeanAnno(t, 1..Len(t))

\* Lines 115-119.
MediaAnnuale(t, inq) == GroupMeanAnno(t, IdxInquinante(t, inq))

\* Line 133: iloc[-1] - iloc[0], as the fraction num / den with den > 0.
Delta(ma) ==
    [num |-> ma[Len(ma)].s * ma[1].n - ma[1].s * ma[Len(ma)].n,
     den |-> ma[1].n * ma[Len(ma)].n]

\* Variant of Trend: a delta of zero counted as a decrease.
Trend_ZeroDecreases(ma) ==
    IF Len(ma) > 1
    THEN (IF Delta(ma).num <= 0 THEN "diminuito" ELSE "aumentato")
    ELSE "none"

\* Lines 132-135: the word written, "none" when nothing is written.
Trend(ma) ==
    IF Len(ma) > 1
    THEN (IF Delta(ma).num < 0 THEN "diminuito" ELSE "aumentato")
    ELSE "none"

\* .groupby("nome_stazione")["valore"].mean() over the rows I.
GroupMeanStazione(t, I) ==
    { [nome_stazione |-> nm,
       s |-> SumValore(t, { k \in I : t[k].nome_stazione = nm }),
       n |-> Cardinality({ k \in I : t[k].nome_stazione = nm })] :
      nm \in { t[k].nome_stazione : k \in I } }

\* a.s / a.n >= b.s / b.n, for positive counts.
MeanGeq(a, b) == a.s * b.n >= b.s * a.n

RECURSIVE DescendingOrders(_)
\* .sort_values(ascending=False): every order of the entries E that is
\* non-increasing by mean; the sort is not stable, so entries of equal mean
\* may come in any order.
DescendingOrders(E) ==
    IF E = {} THEN { <<>> }
    ELSE UNION { { <<e>> \o rest : rest \in DescendingOrders(E \ {e}) } :
                 e \in { x \in E : \A y \in E : MeanGeq(x, y) } }

\* Variant of Head5: the ranking not cut.
Head5_NoCut(seq) == seq

\* .head(5).
Head5(seq) == SubSeq(seq, 1, Min(TopN, Len(seq)))

\* Lines 142-148: the rankings the code may produce.
MediaStazioni(t, inq) ==
    { Head5(o) : o \in DescendingOrders(GroupMeanStazione(t, IdxInquinante(t, inq))) }

\* Line 171: df["anno"].max(), NaN skipped; NaN when no row has a year.
AnnoMax(t) ==
    LET anni == { t[k].anno[1] : k \in { j \in 1..Len(t) : t[j].anno # <<>> } }
    IN  IF anni = {} THEN <<>>
        ELSE << CHOOSE a \in anni : \A b \in anni : b <= a >>

\* Variant of IdxFocus: the latest year of the chosen station and
\* pollutant in place of the latest year of the table.
IdxFocus_OwnYear(t, st, inq, anno) ==
    LET own == { k \in 1..Len(t) :
                   /\ <<t[k].nome_stazione>> = st
                   /\ <<t[k].inquinante>> = inq
                   /\ t[k].anno # <<>> }
    IN  { k \in own : \A j \in own : t[j].anno[1] <= t[k].anno[1] }

\* Lines 173-177, the boolean mask; NaN == NaN is false.
IdxFocus(t, st, inq, anno) ==
    { k \in 1..Len(t) :
        /\ <<t[k].nome_stazione>> = st
        /\ <<t[k].inquinante>> = inq
        /\ anno # <<>>
        /\ t[k].anno = anno }

RECURSIVE AscendingByData(_, _)
\* .sort_values("data"): every order of the rows I of t that is
\* non-decreasing by timestamp (the rows of the mask all have one).
AscendingByData(t, I) ==
    IF I = {} THEN { <<>> }
    ELSE UNION { { <<t[k]>> \o rest : rest \in AscendingByData(t, I \ {k}) } :
                 k \in { x \in I : \A y \in I : t[x].data[1] <= t[y].data[1] } }

\* The options of a selectbox over a column, and its result: st.selectbox
\* returns None when it has no option.
Scelte(S) == IF S = {} THEN { <<>> } ELSE { <<x>> : x \in S }

\* Lines 106-107: the pollutant is chosen among those of the table.
ScegliInquinante ==
    /\ pc = "done"
    /\ apc = "sidebar"
    /\ inquinante' \in Scelte({ df_completo[k].inquinante : k \in 1..Len(df_completo) })
    /\ apc' = "annuale"
    /\ UNCHANGED <<prepvars, media_annuale, trend, media_stazioni, stazione,
                   anno_corrente, df_focus, messaggio>>

\* Lines 115-119.
CalcolaMediaAnnuale ==
    /\ apc = "annuale"
    /\ media_annuale' = MediaAnnuale(df_completo, inquinante)
    /\ apc' = "osservazioni"
    /\ UNCHANGED <<prepvars, inquinante, trend, media_stazioni, stazione,
                   anno_corrente, df_focus, messaggio>>

\* Lines 130-136.
Osservazioni ==
    /\ apc = "osservazioni"
    /\ trend' = Trend(media_annuale)
    /\ apc' = "stazioni"
    /\ UNCHANGED <<prepvars, inquinante, media_annuale, media_stazioni, stazione,
                   anno_corrente, df_focus, messaggio>>

\* Lines 142-148.
CalcolaMediaStazioni ==
    /\ apc = "stazioni"
    /\ media_stazioni' \in MediaStazioni(df_completo, inquinante)
    /\ apc' = "scelta"
    /\ UNCHANGED <<prepvars, inquinante, media_annuale, trend, stazione,
                   anno_corrente, df_focus, messaggio>>

\* Lines 166-169: the station is chosen among those of the table.
ScegliStazione ==
    /\ apc = "scelta"
    /\ stazione' \in Scelte({ df_completo[k].nome_stazione : k \in 1..Len(df_completo) })
    /\ apc' = "dettaglio"
    /\ UNCHANGED <<prepvars, inquinante, media_annuale, trend, media_stazioni,
                   anno_corrente, df_focus, messaggio>>

\* Lines 171-191.
Dettaglio ==
    /\ apc = "dettaglio"
    /\ anno_corrente' = AnnoMax(df_completo)
    /\ df_focus' \in AscendingByData(df_completo,
                        IdxFocus(df_completo, stazione, inquinante, AnnoMax(df_completo)))
    /\ messaggio' = IF df_focus' # <<>> THEN "info" ELSE "warning"
    /\ apc' = "fine"
    /\ UNCHANGED <<prepvars, inquinante, media_annuale, trend, media_stazioni, stazione>>

\* avvia_app: prepara_dati, then the aggregations on the table it returns.
Next ==
    \/ CaricaFile
    \/ FileNonTrovato
    \/ ConcatOk
    \/ ConcatVuoto
    \/ PuliziaOk
    \/ PuliziaSenzaColonne
    \/ PuliziaDataMalformata
    \/ CaricaStazioni
    \/ StazioniAssenti
    \/ StazioniInvalide
    \/ Unione
    \/ UnioneSenzaStazioni
    \/ ScegliInquinante
    \/ CalcolaMediaAnnuale
    \/ Osservazioni
    \/ CalcolaMediaStazioni
    \/ ScegliStazione
    \/ Dettaglio

Spec == Init /\ [][Next]_vars

\* ------------------------------------------ the aggregations on wider tables

\* Largest number of rows of a table of the first family below.
MaxTabella == 2

\* One row of the unified table, as Pulisci and Merge build it.
Riga(inq, sid, nome, d, v) ==
    [inquinante |-> inq, stazione_id |-> sid, valore |-> <<v>>,
     data |-> ToDatetime(d), anno |-> Year(ToDatetime(d)), nome_stazione |-> nome]

\* Rows of two pollutants and two stations over two years; one has no date.
RigheUnificate ==
    { Riga(inq, st[1], st[2], d, v) :
        inq \in {"NO2", "PM10"},
        st \in { <<1, "Verziere">>, <<4, "Liguria">> },
        d \in { <<2020, 3>>, <<2021, 1>>, <<2021, 6>>, <<>> },
        v \in {10, 30} }

\* Six stations, for rankings longer than head(5) keeps.
Centraline == <<"Verziere", "Liguria", "Senato", "Marche", "Pascal", "Zavattari">>

RECURSIVE TabellaCentraline(_, _)
\* One PM10 row for each of the first k stations that has a value in val.
TabellaCentraline(val, k) ==
    IF k = 0 THEN <<>>
    ELSE TabellaCentraline(val, k - 1)
         \o (IF val[k] = <<>> THEN <<>>
             ELSE << Riga("PM10", k, Centraline[k], <<2021, 1>>, val[k][1]) >>)

\* The tables the aggregations are checked on: every table of at most
\* MaxTabella rows of RigheUnificate, and every table of six stations with
\* at most one PM10 row each.
Tabelle ==
    SeqsUpTo(RigheUnificate, MaxTabella)
    \cup { TabellaCentraline(val, Len(Centraline)) :
             val \in [1..Len(Centraline) -> { <<>>, <<10>>, <<20>>, <<30>> }] }

\* prepara_dati has returned a table; its locals and the disk play no
\* further part.
InitApp ==
    /\ fs = <<>>
    /\ geo = <<>>
    /\ pc = "done"
    /\ i = Len(file_json_annuali) + 1
    /\ lista_dati = <<>>
    /\ warnings = <<>>
    /\ df = <<>>
    /\ df_stazioni = <<>>
    /\ df_completo \in Tabelle
    /\ err = "none"
    /\ AppInit

NextApp ==
    \/ ScegliInquinante
    \/ CalcolaMediaAnnuale
    \/ Osservazioni
    \/ CalcolaMediaStazioni
    \/ ScegliStazione
    \/ Dettaglio

SpecApp == InitApp /\ [][NextApp]_vars

\* ------------------------------------------------- properties of prepara_dati

Names == { file_json_annuali[k] : k \in 1..Len(file_json_annuali) }

AbsentNames == { n \in Names : ~fs[n].present }

\* The loop over the yearly files has ended.
Loaded == pc # "load" \/ i > Len(file_json_annuali)

\* The raw rows of the sources that exist, in the order of the list.
RECURSIVE RawRows(_)
RawRows(k) ==
    IF k = 0 THEN <<>>
    ELSE RawRows(k - 1)
         \o (IF fs[file_json_annuali[k]].present
             THEN fs[file_json_annuali[k]].righe ELSE <<>>)

NumericText(txt) == txt # <<>> /\ \A k \in 1..Len(txt) : txt[k] \in Digits

\* A raw row the aggregations can use: a numeric value and a date that parses.
Usable(r) == NumericText(r.valore) /\ r.data # <<>> /\ r.data[2] \in 1..12

StationIds == { df_stazioni[k].stazione_id : k \in 1..Len(df_stazioni) }

\* The raw row r is in the returned table, under some station name.
InTable(r) ==
    \E j \in 1..Len(df_completo) :
        /\ df_completo[j].inquinante = r.inquinante
        /\ df_completo[j].stazione_id = r.stazione_id \div 2
        /\ df_completo[j].valore = ToNumeric(r.valore)
        /\ df_completo[j].data = <<r.data[1] * 12 + r.data[2] - 1>>
        /\ df_completo[j].anno = <<r.data[1]>>

GeoUsable == geo.stato = "ok" /\ geo.features # <<>>

C2_AllMissingGivesEmptyTable ==
    (AbsentNames = Names /\ GeoUsable) =>
        /\ pc # "error"
        /\ pc = "done" => df_completo = <<>>

\* C3: a row with a malformed timestamp (the station source being fine) does
\* not abort prepara_dati: no error leaves it, the row is not in the
\* returned table and the usable rows of known stations are.
C3_MalformedTimestampRowExcluded ==
    ((\E k \in 1..Len(RawRows(Len(file_json_annuali))) :
          Malformed(RawRows(Len(file_json_annuali))[k].data)) /\ GeoUsable) =>
        /\ pc # "error"
        /\ pc = "done" =>
              /\ \A j \in 1..Len(df_completo) :
                    \E k \in 1..Len(RawRows(Len(file_json_annuali))) :
                        LET r == RawRows(Len(file_json_annuali))[k]
                        IN  /\ ~Malformed(r.data)
                            /\ df_completo[j].data = ToDatetime(r.data)
                            /\ df_completo[j].valore = ToNumeric(r.valore)
                            /\ df_completo[j].stazione_id = r.stazione_id \div 2
              /\ \A k \in 1..Len(RawRows(Len(file_json_annuali))) :
                    LET r == RawRows(Len(file_json_annuali))[k]
                    IN  (Usable(r) /\ (r.stazione_id \div 2) \in StationIds) => InTable(r)

\* The pairs (measurement row, station row) with the same integer station id.
Pairs ==
    { p \in (1..Len(df)) \X (1..Len(df_stazioni)) :
        df[p[1]].stazione_id = df_stazioni[p[2]].stazione_id }

\* Every row of the table is a measurement row with the name of a station
\* that has its id.
RowsAreMatches ==
    \A j \in 1..Len(df_completo) :
        \E p \in Pairs :
            /\ df_completo[j].stazione_id = df[p[1]].stazione_id
            /\ df_completo[j].inquinante = df[p[1]].inquinante
            /\ df_completo[j].valore = df[p[1]].valore
            /\ df_completo[j].data = df[p[1]].data
            /\ df_completo[j].nome_stazione = df_stazioni[p[2]].nome_stazione

DistinctStationIds == Cardinality(StationIds) = Len(df_stazioni)

C5_ValueNeverMissing ==
    /\ pc \in {"stazioni", "merge", "done"} =>
          /\ \A k \in 1..Len(df) : Len(df[k].valore) = 1
          /\ Len(df) = Cardinality({ k \in 1..Len(RawRows(Len(file_json_annuali))) :
                                       NumericText(RawRows(Len(file_json_annuali))[k].valore) })
    /\ pc = "done" =>
          \A j \in 1..Len(df_completo) :
              /\ Len(df_completo[j].valore) = 1
              /\ df_completo[j].valore[1] \in Nat

\* A row with a non-numeric value was dropped, a row with a numeric value
\* is in the returned table.
C5_Witness ==
    /\ pc = "done"
    /\ Len(RawRows(Len(file_json_annuali))) = 2
    /\ Len(df) = 1
    /\ Len(df_completo) >= 1
    /\ df_completo[1].valore = <<10>>

\* C10: when the station source is missing or is not valid JSON, the run
\* that reaches it ends in an error, no table is returned and nothing is
\* aggregated; a returned table always comes from a parsed station source
\* with at least one station, and each of its rows carries the name of one.
C10_StationSourceMandatory ==
    /\ geo.stato # "ok" =>
          /\ pc \in {"load", "pulizia", "stazioni", "error"}
          /\ df_completo = <<>>
          /\ apc = "sidebar"
    /\ pc = "done" =>
          /\ geo.stato = "ok"
          /\ df_stazioni # <<>>
          /\ \A j \in 1..Len(df_completo) :
                \E f \in 1..Len(geo.features) :
                    df_completo[j].nome_stazione = geo.features[f].nome

\* The station source is missing; a missing yearly source was only warned
\* about, and the run ended with the error of the station source.
C10_Witness ==
    /\ geo.stato = "absent"
    /\ warnings # <<>>
    /\ pc = "error"
    /\ err = "FileNotFoundError: dati_milano.json"

\* --------------------------------------------- properties of the aggregations

RECURSIVE SumUpTo(_, _, _)
\* Sum of valore over the rows of t among the first k positions that are in I.
SumUpTo(t, I, k) ==
    IF k = 0 THEN 0
    ELSE SumUpTo(t, I, k - 1) + (IF k \in I THEN t[k].valore[1] ELSE 0)

\* The rows of the table of the chosen pollutant.
Chosen == { k \in 1..Len(df_completo) : <<df_completo[k].inquinante>> = inquinante }

ChosenOfYear(y) == { k \in Chosen : df_completo[k].anno = <<y>> }

ChosenYears == { y \in { df_completo[k].anno[1] : k \in { j \in Chosen : df_completo[j].anno # <<>> } } : TRUE }

ChosenOfStation(nm) == { k \in Chosen : df_completo[k].nome_stazione = nm }

ChosenStations == { df_completo[k].nome_stazione : k \in Chosen }

\* C6: for the chosen pollutant the annual mean has exactly one entry for
\* each year that has a row of that pollutant and none for other years, the
\* entries are in ascending year order, and each mean is the sum over the
\* count of the values of exactly the rows of that pollutant and year.
C6_AnnualMean ==
    apc \notin {"sidebar", "annuale"} =>
        /\ { media_annuale[e].anno : e \in 1..Len(media_annuale) } = ChosenYears
        /\ Len(media_annuale) = Cardinality(ChosenYears)
        /\ \A e \in 1..(Len(media_annuale) - 1) :
              media_annuale[e].anno < media_annuale[e + 1].anno
        /\ \A e \in 1..Len(media_annuale) :
              /\ media_annuale[e].n = Cardinality(ChosenOfYear(media_annuale[e].anno))
              /\ media_annuale[e].n > 0
              /\ media_annuale[e].s =
                    SumUpTo(df_completo, ChosenOfYear(media_annuale[e].anno), Len(df_completo))

\* Two rows of the chosen pollutant, the later year first in the table, give
\* two entries with the earlier year first.
C6_Witness ==
    /\ apc = "osservazioni"
    /\ Len(df_completo) = 2
    /\ df_completo[1].anno = <<2021>>
    /\ df_completo[2].anno = <<2020>>
    /\ Len(media_annuale) = 2
    /\ media_annuale[1].anno = 2020

\* C7: the ranking has at most 5 entries, is non-increasing by mean, gives
\* for each station name in it the mean of all rows of that station and the
\* chosen pollutant, names no station twice, and leaves out no station
\* whose mean is strictly greater than the mean of a station in it.
C7_StationRanking ==
    apc \in {"scelta", "dettaglio", "fine"} =>
        /\ Len(media_stazioni) <= 5
        /\ \A e \in 1..(Len(media_stazioni) - 1) :
              media_stazioni[e].s * media_stazioni[e + 1].n
                  >= media_stazioni[e + 1].s * media_stazioni[e].n
        /\ \A e \in 1..Len(media_stazioni) :
              /\ media_stazioni[e].nome_stazione \in ChosenStations
              /\ media_stazioni[e].n =
                    Cardinality(ChosenOfStation(media_stazioni[e].nome_stazione))
              /\ media_stazioni[e].s =
                    SumUpTo(df_completo, ChosenOfStation(media_stazioni[e].nome_stazione),
                            Len(df_completo))
        /\ \A e, f \in 1..Len(media_stazioni) :
              media_stazioni[e].nome_stazione = media_stazioni[f].nome_stazione => e = f
        /\ \A nm \in ChosenStations :
              (\A e \in 1..Len(media_stazioni) : media_stazioni[e].nome_stazione # nm) =>
                  \A e \in 1..Len(media_stazioni) :
                      SumUpTo(df_completo, ChosenOfStation(nm), Len(df_completo))
                            * media_stazioni[e].n
                          <= media_stazioni[e].s * Cardinality(ChosenOfStation(nm))

\* Six stations have rows, with means that differ: five are ranked and the
\* one left out has a smaller mean than the first.
C7_Witness ==
    /\ apc = "scelta"
    /\ Cardinality(ChosenStations) = 6
    /\ Len(media_stazioni) = 5
    /\ media_stazioni[1].s * media_stazioni[5].n > media_stazioni[5].s * media_stazioni[1].n

\* The latest year of the whole table, if a row has a year.
HasYear == \E k \in 1..Len(df_completo) : df_completo[k].anno # <<>>

IsLatestYear(y) ==
    /\ \E k \in 1..Len(df_completo) : df_completo[k].anno = <<y>>
    /\ \A k \in 1..Len(df_completo) :
          df_completo[k].anno # <<>> => df_completo[k].anno[1] <= y

\* The rows of the chosen station and pollutant in the latest year of the table.
Selected ==
    { k \in Chosen :
        /\ <<df_completo[k].nome_stazione>> = stazione
        /\ df_completo[k].anno # <<>>
        /\ IsLatestYear(df_completo[k].anno[1]) }

\* C8: the series holds exactly the rows of the chosen station and pollutant
\* in the latest year of the whole table, each as often as the table does,
\* in ascending timestamp order; when there is none the series is empty and
\* the "no data" warning is shown, otherwise the plot.
C8_StationSeries ==
    apc = "fine" =>
        /\ Len(df_focus) = Cardinality(Selected)
        /\ \A j \in 1..Len(df_focus) : \E k \in Selected : df_focus[j] = df_completo[k]
        /\ \A k \in Selected :
              Cardinality({ j \in 1..Len(df_focus) : df_focus[j] = df_completo[k] })
                  = Cardinality({ j \in Selected : df_completo[j] = df_completo[k] })
        /\ \A j \in 1..(Len(df_focus) - 1) : df_focus[j].data[1] <= df_focus[j + 1].data[1]
        /\ messaggio = (IF Selected = {} THEN "warning" ELSE "info")
        /\ Selected = {} => df_focus = <<>>

\* The chosen station has a row of the chosen pollutant, but in a year
\* before the latest year of the table: the series is empty.
C8_Witness ==
    /\ apc = "fine"
    /\ \E k \in Chosen :
          /\ <<df_completo[k].nome_stazione>> = stazione
          /\ df_completo[k].anno = <<2020>>
    /\ anno_corrente = <<2021>>
    /\ df_focus = <<>>
    /\ messaggio = "warning"

EarliestYear == CHOOSE y \in ChosenYears : \A z \in ChosenYears : y <= z

LatestYear == CHOOSE y \in ChosenYears : \A z \in ChosenYears : z <= y

\* mean(latest year) - mean(earliest year), times the two positive counts.
DeltaNum ==
    SumUpTo(df_completo, ChosenOfYear(LatestYear), Len(df_completo))
        * Cardinality(ChosenOfYear(EarliestYear))
    - SumUpTo(df_completo, ChosenOfYear(EarliestYear), Len(df_completo))
        * Cardinality(ChosenOfYear(LatestYear))

\* C9: a trend is written exactly when the rows of the chosen pollutant span
\* at least 2 years; it is "diminuito" exactly when the mean of the latest
\* year is below the mean of the earliest, and "aumentato" otherwise, equal
\* means included.
C9_TrendSignal ==
    apc \in {"stazioni", "scelta", "dettaglio", "fine"} =>
        /\ trend # "none" <=> Cardinality(ChosenYears) >= 2
        /\ Cardinality(ChosenYears) >= 2 =>
              /\ trend = "diminuito" <=> DeltaNum < 0
              /\ trend = "aumentato" <=> DeltaNum >= 0

\* Two years with the same mean: the trend written is "aumentato".
C9_Witness ==
    /\ apc = "stazioni"
    /\ Cardinality(ChosenYears) = 2
    /\ DeltaNum = 0
    /\ trend = "aumentato"

====
